---- MODULE Spec2Model ----
(***************************************************************************)
(* Model of pkg/announce/github/options.go: the Options record of the      *)
(* release-page announcer, its builder methods, Validate,                  *)
(* ParseSubstitutions, SetRepository and ReadTemplate.                     *)
(*                                                                         *)
(* A Go string is a sequence of one-character strings ("" is << >>).  A Go *)
(* map is a heap object: the substitutions field holds a reference, the    *)
(* variable heap holds the contents of every live map.  The two external   *)
(* collaborators are the file system (variable fs, read by os.ReadFile)    *)
(* and git.ParseRepoSlug, whose code is outside this repository and whose  *)
(* answer is therefore any value of its result type.                       *)
(***************************************************************************)
EXTENDS Integers, Sequences, FiniteSets, TLC

VARIABLES
    o,      \* the Options instance behind the pointer NewOptions returned
    heap,   \* map reference -> contents, for every live map
    fs,     \* path -> file (the file system os.ReadFile reads)
    last    \* the last call: method, argument, collaborator answers, result

vars == <<o, heap, fs, last>>

----------------------------------------------------------------------------
(* Values *)

NoStr == << >>
Colon == ":"

\* error values: nil, or the message with the text / cause appended to it
Nil == [msg |-> "", detail |-> << >>]
Err(msg, detail) == [msg |-> msg, detail |-> detail]

ErrNoTag   == Err("cannot update github page without a tag", << >>)
ErrNoRepo  == Err("cannot update github page, repository not defined", << >>)
ErrNoOwner == Err("cannot update github page, github organization not defined", << >>)
MsgMalformed == "substitution value not well formed: "
MsgSlug      == "parsing repository slug: "
MsgTemplate  == "reading page template text: "

\* map references; the nil map is the zero value of the substitutions field
NilMap    == "nil"
ParsedMap == "parsed"
EmptyMap  == [k \in {} |-> NoStr]

\* the maps the caller owns and may hand in through WithSubstitutions
CallerHeap ==
    ( "callerA" :> (<<"k">> :> <<"v">>) ) @@
    ( "callerB" :> ((<<"k">> :> <<"w">>) @@ (<<"o">> :> <<"l","d">>)) )
CallerRefs == DOMAIN CallerHeap

\* what a reference denotes; reading a nil map reads an empty map
Deref(h, ref) == IF ref = NilMap THEN EmptyMap ELSE h[ref]

----------------------------------------------------------------------------
(* Inputs *)

MaxSubs == 2

ReleaseTypes      == {NoStr, <<"r","c">>}
AssetFileLists    == {<< >>, << <<"f">> >>}
Tags              == {NoStr, <<"v","1">>}
Names             == {NoStr, <<"n">>}
Owners            == {NoStr, <<"o">>}
Repos             == {NoStr, <<"r">>}
PageTemplates     == {NoStr, <<"x">>}
ReleaseNotesFiles == {NoStr, <<"n","f">>}
SubstitutionRefs  == {NilMap, "callerA"}

\* substitution strings: well formed, value with a colon, empty value,
\* no colon, empty key, empty string
SubStrings ==
    { <<"k",":","v">>, <<"k",":","w">>, <<"j",":","a",":","b">>, <<"k",":">>,
      <<"k">>, <<":","v">>, NoStr }
SeqsUpTo(S, n) == UNION { [1..i -> S] : i \in 0..n }
AllSubs    == SeqsUpTo(SubStrings, MaxSubs)
SampleSubs ==
    { << >>,
      << <<"k",":","v">> >>,
      << <<"k",":","v">>, <<"k",":","w">> >>,
      << <<"k",":","v">>, <<"k">>, <<"j",":","a",":","b">> >>,
      << <<":","v">> >> }
SomeSubs == { << <<"j",":","a",":","b">>, <<"k">> >> }

Slugs     == { <<"o","/","r">>, <<"x">> }
FilePaths == { <<"p">>, <<"q">> }
\* the inputs of the specification with every operation
SomeSlugs     == { <<"o","/","r">> }
SomeFilePaths == { <<"p">> }

\* a file: absent or unreadable (ok = FALSE, with the cause), or its contents
NoFile == [ok |-> FALSE, data |-> <<"E","N","O","E","N","T">>]
File(data) == [ok |-> TRUE, data |-> data]
Files == {NoFile, File(NoStr), File(<<"y">>)}
SomeFiles == {NoFile, File(<<"x">>)}

\* the answers of git.ParseRepoSlug: an error, or an (org, repo) pair
SlugError == [ok |-> FALSE, org |-> NoStr, repo |-> NoStr, cause |-> <<"b","a","d">>]
SlugResult(org, repo) == [ok |-> TRUE, org |-> org, repo |-> repo, cause |-> << >>]
ParseRepoSlug(repoSlug) ==
    {SlugError} \cup { SlugResult(org, repo) : org \in Owners, repo \in Repos }

----------------------------------------------------------------------------
(* type Options, NewOptions *)

NewOptions ==
    [ releaseType           |-> NoStr,
      assetFiles            |-> << >>,
      tag                   |-> NoStr,
      name                  |-> NoStr,
      owner                 |-> NoStr,
      repo                  |-> NoStr,
      noMock                |-> FALSE,
      draft                 |-> FALSE,
      updateIfReleaseExists |-> FALSE,
      pageTemplate          |-> NoStr,
      releaseNotesFile      |-> NoStr,
      substitutions         |-> NilMap ]

\* the receiver, which every With method returns
Receiver == "o"

(* the builder methods *)
WithReleaseType(opt, releaseType) == [opt EXCEPT !.releaseType = releaseType]
WithAssetFiles(opt, assetFiles)   == [opt EXCEPT !.assetFiles = assetFiles]
WithTag(opt, tag)                 == [opt EXCEPT !.tag = tag]
WithName(opt, name)               == [opt EXCEPT !.name = name]
WithOwner(opt, owner)             == [opt EXCEPT !.owner = owner]
\* a variant of WithRepo that assigns to the field above it
WithRepoAsOwner(opt, repo)        == [opt EXCEPT !.owner = repo]
WithRepo(opt, repo)               == [opt EXCEPT !.repo = repo]
WithNoMock(opt, noMock)           == [opt EXCEPT !.noMock = noMock]
WithDraft(opt, draft)             == [opt EXCEPT !.draft = draft]
WithUpdateIfReleaseExists(opt, updateIfReleaseExists) ==
    [opt EXCEPT !.updateIfReleaseExists = updateIfReleaseExists]
WithPageTemplate(opt, pageTemplate) == [opt EXCEPT !.pageTemplate = pageTemplate]
WithReleaseNotesFile(opt, releaseNotesFile) ==
    [opt EXCEPT !.releaseNotesFile = releaseNotesFile]
WithSubstitutions(opt, substitutions) == [opt EXCEPT !.substitutions = substitutions]

\* a variant of Validate that looks at owner before repo
ValidateOwnerFirst(opt) ==
    IF opt.tag = NoStr THEN ErrNoTag
    ELSE IF opt.owner = NoStr THEN ErrNoOwner
    ELSE IF opt.repo = NoStr THEN ErrNoRepo
    ELSE Nil

(* Validate: the first missing field, in the order tag, repo, owner *)
Validate(opt) ==
    IF opt.tag = NoStr THEN ErrNoTag
    ELSE IF opt.repo = NoStr THEN ErrNoRepo
    ELSE IF opt.owner = NoStr THEN ErrNoOwner
    ELSE Nil

(* strings.SplitN(s, sep, n) for n >= 1 and a one-character separator: at
   most n parts, the last one the unsplit remainder *)
Index(s, sep) ==
    IF \E i \in 1..Len(s) : s[i] = sep
    THEN CHOOSE i \in 1..Len(s) : s[i] = sep /\ \A j \in 1..(i - 1) : s[j] # sep
    ELSE 0

RECURSIVE SplitN(_, _, _)
SplitN(s, sep, n) ==
    LET i == Index(s, sep) IN
    IF n = 1 \/ i = 0 THEN << s >>
    ELSE << SubSeq(s, 1, i - 1) >> \o SplitN(SubSeq(s, i + 1, Len(s)), sep, n - 1)

(* heap operations *)
\* map[string]string{}: a new, empty map
MakeMap(h) == (ParsedMap :> EmptyMap) @@ [r \in DOMAIN h \ {ParsedMap} |-> h[r]]
\* m[k] = v
MapAssign(h, ref, k, v) ==
    [h EXCEPT ![ref] = (k :> v) @@ [x \in DOMAIN h[ref] \ {k} |-> h[ref][x]]]
\* a map nothing refers to any more is reclaimed
Collect(h, opt) ==
    [r \in (DOMAIN h) \cap (CallerRefs \cup {opt.substitutions}) |-> h[r]]

\* a variant of the loop that goes on after a malformed string
RECURSIVE ParseLoopNoReturn(_, _, _, _)
ParseLoopNoReturn(h, ref, subs, i) ==
    IF i > Len(subs) THEN [heap |-> h, err |-> Nil]
    ELSE LET sString == subs[i]
             p == SplitN(sString, Colon, 2)
         IN  IF Len(p) # 2 \/ p[1] = NoStr
             THEN [heap |-> ParseLoopNoReturn(h, ref, subs, i + 1).heap,
                   err |-> Err(MsgMalformed, sString)]
             ELSE ParseLoopNoReturn(MapAssign(h, ref, p[1], p[2]), ref, subs, i + 1)

(* ParseSubstitutions: the loop from element i on, writing through ref *)
RECURSIVE ParseLoop(_, _, _, _)
ParseLoop(h, ref, subs, i) ==
    IF i > Len(subs) THEN [heap |-> h, err |-> Nil]
    ELSE LET sString == subs[i]
             p == SplitN(sString, Colon, 2)
         IN  IF Len(p) # 2 \/ p[1] = NoStr
             THEN [heap |-> h, err |-> Err(MsgMalformed, sString)]
             ELSE ParseLoop(MapAssign(h, ref, p[1], p[2]), ref, subs, i + 1)

\* a variant that makes a map only when the field holds none
KeepSubstitutions(opt, h) ==
    IF opt.substitutions = NilMap
    THEN [o |-> [opt EXCEPT !.substitutions = ParsedMap], heap |-> MakeMap(h)]
    ELSE [o |-> opt, heap |-> h]

\* the field is first set to a new map, then the loop fills it
ResetSubstitutions(opt, h) ==
    [o |-> [opt EXCEPT !.substitutions = ParsedMap], heap |-> MakeMap(h)]

\* a variant that empties the map the field holds and fills that one
ParseSubstitutionsInPlace(opt, h, subs) ==
    LET s0 == IF opt.substitutions = NilMap
              THEN ResetSubstitutions(opt, h)
              ELSE [o |-> opt, heap |-> [h EXCEPT ![opt.substitutions] = EmptyMap]]
        r  == ParseLoop(s0.heap, s0.o.substitutions, subs, 1)
    IN  [o |-> s0.o, heap |-> Collect(r.heap, s0.o), err |-> r.err]

ParseSubstitutions(opt, h, subs) ==
    LET s0 == ResetSubstitutions(opt, h)
        r  == ParseLoop(s0.heap, s0.o.substitutions, subs, 1)
    IN  [o |-> s0.o, heap |-> Collect(r.heap, s0.o), err |-> r.err]

\* a variant of SetRepository that assigns the owner before it looks at err
SetRepositoryEager(opt, parsed) ==
    IF ~parsed.ok
    THEN [o |-> [opt EXCEPT !.owner = parsed.org], err |-> Err(MsgSlug, parsed.cause)]
    ELSE [o |-> [opt EXCEPT !.owner = parsed.org, !.repo = parsed.repo], err |-> Nil]

(* SetRepository, given the answer of git.ParseRepoSlug *)
SetRepository(opt, parsed) ==
    IF ~parsed.ok
    THEN [o |-> opt, err |-> Err(MsgSlug, parsed.cause)]
    ELSE [o |-> [opt EXCEPT !.owner = parsed.org, !.repo = parsed.repo], err |-> Nil]

\* a variant of ReadTemplate that returns at once on an empty path
ReadTemplateKeep(opt, files, templatePath) ==
    IF templatePath = NoStr
    THEN [o |-> opt, reads |-> << >>, err |-> Nil]
    ELSE LET f == files[templatePath] IN
         IF ~f.ok
         THEN [o |-> opt, reads |-> << f >>, err |-> Err(MsgTemplate, f.data)]
         ELSE [o |-> [opt EXCEPT !.pageTemplate = f.data], reads |-> << f >>, err |-> Nil]

\* a variant of ReadTemplate that stores what the read returned before it
\* looks at err
ReadTemplateClear(opt, files, templatePath) ==
    IF templatePath = NoStr
    THEN [o |-> [opt EXCEPT !.pageTemplate = NoStr], reads |-> << >>, err |-> Nil]
    ELSE LET f == files[templatePath] IN
         IF ~f.ok
         THEN [o |-> [opt EXCEPT !.pageTemplate = NoStr], reads |-> << f >>,
               err |-> Err(MsgTemplate, f.data)]
         ELSE [o |-> [opt EXCEPT !.pageTemplate = f.data], reads |-> << f >>, err |-> Nil]

\* a variant of ReadTemplate that adds the file to the template it holds
ReadTemplateAppend(opt, files, templatePath) ==
    IF templatePath = NoStr
    THEN [o |-> [opt EXCEPT !.pageTemplate = NoStr], reads |-> << >>, err |-> Nil]
    ELSE LET f == files[templatePath] IN
         IF ~f.ok
         THEN [o |-> opt, reads |-> << f >>, err |-> Err(MsgTemplate, f.data)]
         ELSE [o |-> [opt EXCEPT !.pageTemplate = @ \o f.data], reads |-> << f >>,
               err |-> Nil]

(* ReadTemplate: reads is the sequence of os.ReadFile results it obtained *)
ReadTemplate(opt, files, templatePath) ==
    IF templatePath = NoStr
    THEN [o |-> [opt EXCEPT !.pageTemplate = NoStr], reads |-> << >>, err |-> Nil]
    ELSE LET f == files[templatePath] IN
         IF ~f.ok
         THEN [o |-> opt, reads |-> << f >>, err |-> Err(MsgTemplate, f.data)]
         ELSE [o |-> [opt EXCEPT !.pageTemplate = f.data], reads |-> << f >>, err |-> Nil]

----------------------------------------------------------------------------------------------------------------------------------------
(* The calls *)

Methods == {"Validate", "ParseSubstitutions", "SetRepository", "ReadTemplate"}

\* the record of a call; prior: what the fields the method writes held when
\* it was called; again: the same method with the same argument and the same
\* collaborator answers as the call before it
CallRecord(op, arg, env, prior, err, ret) ==
    [ op |-> op, arg |-> arg, env |-> env, prior |-> prior, err |-> err, ret |-> ret,
      again |-> op \in Methods /\ last.op = op /\ last.arg = arg /\ last.env = env ]

InitWith(paths, files) ==
    /\ o = NewOptions
    /\ heap = CallerHeap
    /\ fs \in [paths -> files]
    /\ last = [ op |-> "NewOptions", arg |-> << >>, env |-> << >>,
                prior |-> << >>, err |-> Nil,
                ret |-> Receiver, again |-> FALSE ]

\* a builder call: opt is the receiver after the assignment
Builder(opt) ==
    /\ o' = opt
    /\ heap' = Collect(heap, opt)
    /\ last' = CallRecord("With", << >>, << >>, << >>, Nil, Receiver)
    /\ UNCHANGED fs

CallWithReleaseType(v)  == Builder(WithReleaseType(o, v))
CallWithAssetFiles(v)   == Builder(WithAssetFiles(o, v))
CallWithTag(v)          == Builder(WithTag(o, v))
CallWithName(v)         == Builder(WithName(o, v))
CallWithOwner(v)        == Builder(WithOwner(o, v))
CallWithRepo(v)         == Builder(WithRepo(o, v))
CallWithNoMock(v)       == Builder(WithNoMock(o, v))
CallWithDraft(v)        == Builder(WithDraft(o, v))
CallWithUpdateIfReleaseExists(v) == Builder(WithUpdateIfReleaseExists(o, v))
CallWithPageTemplate(v) == Builder(WithPageTemplate(o, v))
CallWithReleaseNotesFile(v) == Builder(WithReleaseNotesFile(o, v))
CallWithSubstitutions(v) == Builder(WithSubstitutions(o, v))

CallValidate ==
    /\ last' = CallRecord("Validate", << >>, << >>, << >>, Validate(o), "")
    /\ UNCHANGED <<o, heap, fs>>

CallParseSubstitutions(subs) ==
    LET r == ParseSubstitutions(o, heap, subs) IN
    /\ o' = r.o
    /\ heap' = r.heap
    /\ last' = CallRecord("ParseSubstitutions", subs, << >>,
                        << o.substitutions >>, r.err, "")
    /\ UNCHANGED fs

CallSetRepository(repoSlug) ==
    \E parsed \in ParseRepoSlug(repoSlug) :
        LET r == SetRepository(o, parsed) IN
        /\ o' = r.o
        /\ last' = CallRecord("SetRepository", repoSlug, << parsed >>,
                            << o.owner, o.repo >>, r.err, "")
        /\ UNCHANGED <<heap, fs>>

CallReadTemplate(templatePath) ==
    LET r == ReadTemplate(o, fs, templatePath) IN
    /\ o' = r.o
    /\ last' = CallRecord("ReadTemplate", templatePath, r.reads,
                        << o.pageTemplate >>, r.err, "")
    /\ UNCHANGED <<heap, fs>>

\* the environment: a template file is written, replaced or removed
WriteFile(path, f) ==
    /\ fs[path] # f
    /\ fs' = [fs EXCEPT ![path] = f]
    /\ UNCHANGED <<o, heap, last>>

(* Every operation *)
Init == InitWith(SomeFilePaths, SomeFiles)

Next ==
    \/ \E v \in ReleaseTypes : CallWithReleaseType(v)
    \/ \E v \in AssetFileLists : CallWithAssetFiles(v)
    \/ \E v \in Tags : CallWithTag(v)
    \/ \E v \in Names : CallWithName(v)
    \/ \E v \in Owners : CallWithOwner(v)
    \/ \E v \in Repos : CallWithRepo(v)
    \/ \E v \in BOOLEAN : CallWithNoMock(v)
    \/ \E v \in BOOLEAN : CallWithDraft(v)
    \/ \E v \in BOOLEAN : CallWithUpdateIfReleaseExists(v)
    \/ \E v \in PageTemplates : CallWithPageTemplate(v)
    \/ \E v \in ReleaseNotesFiles : CallWithReleaseNotesFile(v)
    \/ \E v \in SubstitutionRefs : CallWithSubstitutions(v)
    \/ CallValidate
    \/ \E subs \in SomeSubs : CallParseSubstitutions(subs)
    \/ \E repoSlug \in SomeSlugs : CallSetRepository(repoSlug)
    \/ \E templatePath \in SomeFilePaths \cup {NoStr} : CallReadTemplate(templatePath)
    \/ \E path \in SomeFilePaths, f \in SomeFiles : WriteFile(path, f)

Spec == Init /\ [][Next]_vars

(* The four methods and the builders of the fields they read or write *)
InitMethods == InitWith(FilePaths, Files)

NextMethods ==
    \/ \E v \in Tags : CallWithTag(v)
    \/ \E v \in Owners : CallWithOwner(v)
    \/ \E v \in Repos : CallWithRepo(v)
    \/ \E v \in PageTemplates : CallWithPageTemplate(v)
    \/ \E v \in SubstitutionRefs : CallWithSubstitutions(v)
    \/ CallValidate
    \/ \E subs \in SampleSubs : CallParseSubstitutions(subs)
    \/ \E repoSlug \in Slugs : CallSetRepository(repoSlug)
    \/ \E templatePath \in FilePaths \cup {NoStr} : CallReadTemplate(templatePath)
    \/ \E path \in FilePaths, f \in Files : WriteFile(path, f)

SpecMethods == InitMethods /\ [][NextMethods]_vars

(* The substitutions, with every list of substitution strings *)
NextSubs ==
    \/ \E v \in CallerRefs \cup {NilMap} : CallWithSubstitutions(v)
    \/ \E subs \in AllSubs : CallParseSubstitutions(subs)

SpecSubs == Init /\ [][NextSubs]_vars

----------------------------------------------------------------------------
(* Properties *)

\* the contents of the substitutions field
Substitutions == Deref(heap, o.substitutions)

\* the error the first empty field among tag, repo, owner calls for
ExpectedValidate(opt) ==
    CASE opt.tag = NoStr -> ErrNoTag
      [] opt.tag # NoStr /\ opt.repo = NoStr -> ErrNoRepo
      [] opt.tag # NoStr /\ opt.repo # NoStr /\ opt.owner = NoStr -> ErrNoOwner
      [] OTHER -> Nil
\* C1: Validate returns the missing-tag error if tag is empty, otherwise the
\* missing-repository error if repo is empty, otherwise the missing-organization
\* error if owner is empty, otherwise nil; so it succeeds exactly when all
\* three are non-empty, and a new Options fails with the missing-tag error.
C1_ValidateOrder ==
    /\ Validate(o) = ExpectedValidate(o)
    /\ Validate(o) = Nil <=> (o.tag # NoStr /\ o.repo # NoStr /\ o.owner # NoStr)
    /\ Validate(o) \in {Nil, ErrNoTag, ErrNoRepo, ErrNoOwner}
    /\ last.op = "Validate" => last.err = ExpectedValidate(o)
    /\ last.op = "NewOptions" => Validate(o) = ErrNoTag
C1_Witness ==
    /\ last.op = "Validate"
    /\ o.tag # NoStr /\ o.repo = NoStr /\ o.owner = NoStr
    /\ last.err = ErrNoRepo

\* the key and the value of a substitution string, read off the string: the
\* key is the longest prefix without a colon, the value what follows the
\* colon after it
KeyLen(s) == CHOOSE n \in 0..Len(s) :
    /\ \A j \in 1..n : s[j] # Colon
    /\ n < Len(s) => s[n + 1] = Colon
KeyOf(s)   == SubSeq(s, 1, KeyLen(s))
ValueOf(s) == SubSeq(s, KeyLen(s) + 2, Len(s))
WellFormed(s) == KeyLen(s) > 0 /\ KeyLen(s) < Len(s)
\* the mapping a list of well-formed strings denotes: the last value per key
LastWith(subs, k) == CHOOSE i \in 1..Len(subs) :
    /\ KeyOf(subs[i]) = k
    /\ \A j \in (i + 1)..Len(subs) : KeyOf(subs[j]) # k
ExpectedMap(subs) ==
    [k \in { KeyOf(subs[i]) : i \in 1..Len(subs) } |-> ValueOf(subs[LastWith(subs, k)])]
\* the index of the first malformed string, 0 if there is none
FirstMalformed(subs) ==
    IF \A i \in 1..Len(subs) : WellFormed(subs[i]) THEN 0
    ELSE CHOOSE i \in 1..Len(subs) :
            ~WellFormed(subs[i]) /\ \A j \in 1..(i - 1) : WellFormed(subs[j])

\* C2: ParseSubstitutions of a list of well-formed strings succeeds and leaves
\* in substitutions exactly the last value of every key of the list, and
\* nothing of what the field held before.
C2_ParseReplaces ==
    (last.op = "ParseSubstitutions" /\ FirstMalformed(last.arg) = 0) =>
        /\ last.err = Nil
        /\ o.substitutions # NilMap
        /\ Substitutions = ExpectedMap(last.arg)
C2_Witness ==
    /\ last.op = "ParseSubstitutions"
    /\ last.arg = << <<"k",":","v">>, <<"k",":">> >>
    /\ last.prior = << "callerB" >>
    /\ last.err = Nil
    /\ Substitutions = (<<"k">> :> NoStr)

\* C3: ParseSubstitutions of a list with a malformed string fails with the
\* error naming the first malformed string and leaves in substitutions exactly
\* the entries of the strings before it.
C3_ParseFailsPartial ==
    (last.op = "ParseSubstitutions" /\ FirstMalformed(last.arg) # 0) =>
        LET f == FirstMalformed(last.arg) IN
        /\ last.err = Err(MsgMalformed, last.arg[f])
        /\ o.substitutions # NilMap
        /\ Substitutions = ExpectedMap(SubSeq(last.arg, 1, f - 1))
C3_Witness ==
    /\ last.op = "ParseSubstitutions"
    /\ last.arg = << <<"j",":","a",":","b">>, <<":","v">> >>
    /\ last.prior = << "callerA" >>
    /\ last.err = Err(MsgMalformed, <<":","v">>)
    /\ Substitutions = (<<"j">> :> <<"a",":","b">>)

\* C4: SetRepository is all-or-nothing: when the slug parser fails it returns
\* the wrapped "parsing repository slug" error and owner and repo keep their
\* values; when the parser answers (org, repo) it returns nil and owner = org
\* and repo = repo.
C4_SetRepositoryAllOrNothing ==
    [][ (fs' = fs /\ last'.op = "SetRepository") =>
            LET parsed == last'.env[1] IN
            /\ Len(last'.env) = 1
            /\ parsed \in ParseRepoSlug(last'.arg)
            /\ IF parsed.ok
               THEN /\ last'.err = Nil
                    /\ o'.owner = parsed.org
                    /\ o'.repo = parsed.repo
               ELSE /\ last'.err = Err(MsgSlug, parsed.cause)
                    /\ o'.owner = o.owner
                    /\ o'.repo = o.repo ]_vars
C4_Witness ==
    /\ last.op = "SetRepository"
    /\ ~last.env[1].ok
    /\ last.err = Err(MsgSlug, SlugError.cause)
    /\ last.prior = << <<"o">>, <<"r">> >>
    /\ o.owner = <<"o">> /\ o.repo = <<"r">>

\* C6: ReadTemplate("") succeeds and leaves pageTemplate empty, whatever it
\* held and whatever the file system holds, and reads no file.
C6_ReadTemplateEmptyPath ==
    (last.op = "ReadTemplate" /\ last.arg = NoStr) =>
        /\ last.err = Nil
        /\ o.pageTemplate = NoStr
        /\ last.env = << >>
C6_Witness ==
    /\ last.op = "ReadTemplate"
    /\ last.arg = NoStr
    /\ last.prior = << <<"y">> >>
    /\ \E path \in DOMAIN fs : fs[path] = File(<<"y">>)
    /\ last.err = Nil
    /\ o.pageTemplate = NoStr

\* C7: ReadTemplate of a non-empty path reads the file at that path once and
\* either succeeds with pageTemplate equal to its whole contents, or returns
\* the wrapped "reading page template text" error and leaves pageTemplate as
\* it was.
C7_ReadTemplateFile ==
    [][ (fs' = fs /\ last'.op = "ReadTemplate" /\ last'.arg # NoStr) =>
            LET f == fs[last'.arg] IN
            /\ last'.env = << f >>
            /\ IF f.ok
               THEN /\ last'.err = Nil
                    /\ o'.pageTemplate = f.data
               ELSE /\ last'.err = Err(MsgTemplate, f.data)
                    /\ o'.pageTemplate = o.pageTemplate ]_vars
C7_Witness ==
    /\ last.op = "ReadTemplate"
    /\ last.arg = <<"q">>
    /\ last.env = << NoFile >>
    /\ last.err = Err(MsgTemplate, NoFile.data)
    /\ last.prior = << <<"y">> >>
    /\ o.pageTemplate = <<"y">>

\* every map of the caller is there after the step, with the entries it had
CallerMapsKept == \A ref \in CallerRefs : ref \in DOMAIN heap' /\ heap'[ref] = heap[ref]
\* the fields the step changed
Written == { f \in DOMAIN o : o'[f] # o[f] }
\* the chain of three builders on a new Options
BuilderChain ==
    \A t \in Tags, w \in Owners, r \in Repos :
        WithRepo(WithOwner(WithTag(NewOptions, t), w), r) =
            [NewOptions EXCEPT !.tag = t, !.owner = w, !.repo = r]
\* what each builder makes of the receiver, in the state reached
BuilderSets ==
    /\ \A v \in ReleaseTypes : WithReleaseType(o, v) = [o EXCEPT !.releaseType = v]
    /\ \A v \in AssetFileLists : WithAssetFiles(o, v) = [o EXCEPT !.assetFiles = v]
    /\ \A v \in Tags : WithTag(o, v) = [o EXCEPT !.tag = v]
    /\ \A v \in Names : WithName(o, v) = [o EXCEPT !.name = v]
    /\ \A v \in Owners : WithOwner(o, v) = [o EXCEPT !.owner = v]
    /\ \A v \in Repos : WithRepo(o, v) = [o EXCEPT !.repo = v]
    /\ \A v \in BOOLEAN : WithNoMock(o, v) = [o EXCEPT !.noMock = v]
    /\ \A v \in BOOLEAN : WithDraft(o, v) = [o EXCEPT !.draft = v]
    /\ \A v \in BOOLEAN :
          WithUpdateIfReleaseExists(o, v) = [o EXCEPT !.updateIfReleaseExists = v]
    /\ \A v \in PageTemplates : WithPageTemplate(o, v) = [o EXCEPT !.pageTemplate = v]
    /\ \A v \in ReleaseNotesFiles :
          WithReleaseNotesFile(o, v) = [o EXCEPT !.releaseNotesFile = v]
    /\ \A v \in SubstitutionRefs :
          WithSubstitutions(o, v) = [o EXCEPT !.substitutions = v]
\* what a call changes
CallFrame ==
    /\ last'.op = "With" =>
          /\ Cardinality(Written) <= 1
          /\ CallerMapsKept
          /\ last'.ret = Receiver
    /\ last'.op = "Validate" => (Written = {} /\ heap' = heap)
    /\ last'.op = "ParseSubstitutions" =>
          (Written \subseteq {"substitutions"} /\ CallerMapsKept)
    /\ last'.op = "SetRepository" => (Written \subseteq {"owner", "repo"} /\ heap' = heap)
    /\ last'.op = "ReadTemplate" => (Written \subseteq {"pageTemplate"} /\ heap' = heap)
\* C8: every operation writes its own fields only.  With<Field>(v) sets that
\* field to v, whatever v is, and returns the receiver; ParseSubstitutions
\* changes substitutions only, SetRepository owner and repo only, ReadTemplate
\* pageTemplate only, Validate nothing; no call writes a caller's map or the
\* file system.  So NewOptions().WithTag(t).WithOwner(w).WithRepo(r) has these
\* three values and the zero value everywhere else.
C8_Frame ==
    /\ [](BuilderChain /\ BuilderSets)
    /\ [][IF fs' # fs THEN UNCHANGED <<o, heap, last>> ELSE CallFrame]_vars
C8_Witness ==
    /\ last.op = "With"
    /\ last.ret = Receiver
    /\ o = [NewOptions EXCEPT !.tag = <<"v","1">>, !.owner = <<"o">>, !.repo = <<"r">>]


\* the value of every field, a map by whether it is nil and by its contents
FieldValues(opt, h) ==
    [opt EXCEPT !.substitutions = << opt.substitutions = NilMap, Deref(h, opt.substitutions) >>]

\* C9: Validate, ParseSubstitutions, SetRepository and ReadTemplate are
\* idempotent: called a second time in a row with the same input, the same
\* slug-parser answer and the same file, the method returns what it returned
\* the first time and every field has the value it had after the first call.
C9_Idempotent ==
    [][ (fs' = fs /\ last'.again) =>
            /\ last'.err = last.err
            /\ FieldValues(o', heap') = FieldValues(o, heap) ]_vars
C9_Witness ==
    /\ last.again
    /\ last.op = "ParseSubstitutions"
    /\ last.arg = << <<"k",":","v">>, <<"k">>, <<"j",":","a",":","b">> >>
    /\ last.prior = << ParsedMap >>
    /\ last.err = Err(MsgMalformed, <<"k">>)
    /\ Substitutions = (<<"k">> :> <<"v">>)

\* C10: ParseSubstitutions never writes into a map the caller handed in with
\* WithSubstitutions: every caller's map has after the call the entries it
\* had before it, and the field refers to a map of its own, also when the
\* list is empty or the field held no map.
C10_CallerMapUntouched ==
    [][ last'.op = "ParseSubstitutions" =>
            /\ CallerMapsKept
            /\ o'.substitutions \notin CallerRefs \cup {NilMap}
            /\ o'.substitutions \in DOMAIN heap' ]_vars
C10_Witness ==
    /\ last.op = "ParseSubstitutions"
    /\ last.prior = << "callerA" >>
    /\ last.arg = << <<"k",":","w">>, NoStr >>
    /\ Substitutions = (<<"k">> :> <<"w">>)
    /\ heap["callerA"] = (<<"k">> :> <<"v">>)

====
